---- MODULE Spec2Model ----
(***************************************************************************)
(* Model of obsidiantools/_io.py: the recursive file listing, the          *)
(* sub-directory filter get_relpaths_matching_subdirs and the filename     *)
(* resolver _get_shortest_path_by_filename.                                *)
(*                                                                         *)
(* A str is a TLA+ string, read character by character with SubSeq.  A     *)
(* relative Path is the sequence of its parts (pathlib's Path.parts), so   *)
(* Path(".") is the empty sequence.  A Path built from a caller's string   *)
(* also carries its root ("" or "/").                                      *)
(***************************************************************************)
EXTENDS Integers, Sequences, FiniteSets, TLC

\* Bounds of the model: files listed under the root, entries of include_subdirs.
MaxPaths == 3
MaxSubdirs == 2

\* The files of the wanted extension that may exist under dir_path.
Files ==
    { <<"a.md">>,
      <<"root.md">>,
      <<"sub", "a.md">>,
      <<"sub", "b.md">>,
      <<"Cat1", "x.md">>,
      <<"Cat1", "Sub", "y.md">>,
      <<"Cat10", "x.md">>,
      <<"Cat2", "z.md">> }

\* The strings a caller may put in include_subdirs.
SubdirSpecs ==
    { "Cat1", "Cat1/Sub", "Cat1.md", "Cat2/",
      ".", "./", "",
      "/Cat1", "../x", "Cat1/../../y" }

VARIABLES
    all_rel,              \* the list get_relpaths_from_dir returns
    include_subdirs,      \* argument: [none |-> BOOLEAN, items |-> set of str]
    include_root,         \* argument
    result,               \* outcome of get_relpaths_matching_subdirs
    shortest_paths_arr,   \* the per-position keys of the resolver
    mapping,              \* the dict the resolver returns
    pc

vars == <<all_rel, include_subdirs, include_root, result,
          shortest_paths_arr, mapping, pc>>

----------------------------------------------------------------------------
(* str and pathlib helpers *)

Min(a, b) == IF a <= b THEN a ELSE b

Char(s, i) == SubSeq(s, i, i)

\* s.startswith(t)
StartsWith(s, t) == Len(t) <= Len(s) /\ SubSeq(s, 1, Len(t)) = t

\* s.rfind(c) for a one-character c, 1-based; 0 when c does not occur
RFind(s, c) ==
    IF \E i \in 1..Len(s) : Char(s, i) = c
    THEN CHOOSE i \in 1..Len(s) :
            Char(s, i) = c /\ \A j \in (i+1)..Len(s) : Char(s, j) # c
    ELSE 0

\* s.split(sep) for a one-character sep
RECURSIVE Split(_, _)
Split(s, sep) ==
    IF \E i \in 1..Len(s) : Char(s, i) = sep
    THEN LET i == CHOOSE k \in 1..Len(s) :
                    Char(s, k) = sep /\ \A j \in 1..(k-1) : Char(s, j) # sep
         IN  <<SubSeq(s, 1, i-1)>> \o Split(SubSeq(s, i+1, Len(s)), sep)
    ELSE <<s>>

\* sep.join(parts)
RECURSIVE Join(_, _)
Join(parts, sep) ==
    IF Len(parts) = 0 THEN ""
    ELSE IF Len(parts) = 1 THEN parts[1]
    ELSE parts[1] \o sep \o Join(Tail(parts), sep)

\* Path(s): the root is "/" for a string that starts with a separator; the
\* parts are the pieces between separators, empty pieces and "." dropped.
PathOf(s) ==
    [ root  |-> IF StartsWith(s, "/") THEN "/" ELSE "",
      parts |-> SelectSeq(Split(s, "/"), LAMBDA x : x # "" /\ x # ".") ]

\* str(path) of a relative path
StrOf(p) == IF Len(p) = 0 THEN "." ELSE Join(p, "/")

\* path.name and path.parent of a relative path
NameOf(p) == IF Len(p) = 0 THEN "" ELSE p[Len(p)]
ParentOf(p) == IF Len(p) = 0 THEN <<>> ELSE SubSeq(p, 1, Len(p) - 1)

\* PurePath.suffix of a final component
SuffixOf(name) ==
    LET i == RFind(name, ".")
    IN  IF 1 < i /\ i < Len(name) THEN SubSeq(name, i, Len(name)) ELSE ""

\* path.with_suffix(""): ValueError on an empty name, else the last suffix
\* of the final component is removed.
WithSuffixEmpty(path) ==
    LET name == NameOf(path.parts)
        n    == Len(path.parts)
    IN  IF name = ""
        THEN [ raised |-> TRUE, root |-> path.root, parts |-> <<>> ]
        ELSE [ raised |-> FALSE, root |-> path.root,
               parts  |-> SubSeq(path.parts, 1, n - 1)
                            \o <<SubSeq(name, 1, Len(name) - Len(SuffixOf(name)))>> ]

\* path.relative_to("."): ValueError for an anchored path, else the path itself
RelativeToDot(path) ==
    IF path.root # ""
    THEN [ raised |-> TRUE, parts |-> <<>> ]
    ELSE [ raised |-> FALSE, parts |-> path.parts ]

\* Path(s).with_suffix("").relative_to(".")
NormalizeSubdir(s) ==
    LET w == WithSuffixEmpty(PathOf(s))
    IN  IF w.raised THEN [ raised |-> TRUE, parts |-> <<>> ]
        ELSE RelativeToDot(w)

\* A comparison of the two paths as text instead of part by part.
IsRelativeToByText(parent, d) ==
    Len(d) = 0 \/ StartsWith(StrOf(parent), StrOf(d))

\* parent.is_relative_to(d) on relative paths: d's parts lead parent's parts
IsRelativeTo(parent, d) ==
    Len(d) = 0 \/ SubSeq(parent, 1, Min(Len(d), Len(parent))) = d

Range(f) == { f[i] : i \in DOMAIN f }

----------------------------------------------------------------------------
(* get_relpaths_matching_subdirs *)

None == [ none |-> TRUE, items |-> {} ]

\* A test for None alone, which lets an empty collection through.
IsNone(subdirs) == subdirs.none

\* "not include_subdirs": None or an empty collection
NotGiven(subdirs) == subdirs.none \/ subdirs.items = {}

\* allowed_dirs: the normalised entries; building the list raises as soon
\* as one entry raises.
AllowedDirs(subdirs) ==
    LET norm == { NormalizeSubdir(s) : s \in subdirs.items }
    IN  [ raised |-> \E n \in norm : n.raised,
          dirs   |-> { n.parts : n \in { m \in norm : ~m.raised } } ]

\* _in_allowed_tree(path)
InAllowedTree(path, allowed_dirs) ==
    LET parent == ParentOf(path)
    IN  \E d \in allowed_dirs : parent = d \/ IsRelativeTo(parent, d)

\* The body of get_relpaths_matching_subdirs after the listing.
FilterBody(paths, subdirs, root) ==
    IF NotGiven(subdirs)
    THEN [ raised |-> FALSE,
           value  |-> IF root THEN paths
                      ELSE SelectSeq(paths, LAMBDA p : ParentOf(p) # <<>>) ]
    ELSE LET allowed == AllowedDirs(subdirs)
         IN  IF allowed.raised
             THEN [ raised |-> TRUE, value |-> <<>> ]
             ELSE [ raised |-> FALSE,
                    value  |-> SelectSeq(paths, LAMBDA p :
                                  (root /\ ParentOf(p) = <<>>)
                                  \/ InAllowedTree(p, allowed.dirs)) ]

Reverse(s) == [ i \in 1..Len(s) |-> s[Len(s) + 1 - i] ]

\* The retained paths collected in reverse.
FilterReversed(paths, subdirs, root) ==
    LET r == FilterBody(paths, subdirs, root)
    IN  [ raised |-> r.raised, value |-> Reverse(r.value) ]

\* The first retained path lost (a slice that starts one too late).
FilterSkipFirst(paths, subdirs, root) ==
    LET r == FilterBody(paths, subdirs, root)
    IN  [ raised |-> r.raised,
          value  |-> IF Len(r.value) = 0 THEN <<>> ELSE Tail(r.value) ]

GetRelpathsMatchingSubdirs(paths, subdirs, root) ==
    FilterBody(paths, subdirs, root)

----------------------------------------------------------------------------
(* _get_shortest_path_by_filename *)

AllFileNamesList(relpaths_list) ==
    [ i \in 1..Len(relpaths_list) |-> NameOf(relpaths_list[i]) ]

\* np.unique(arr, return_inverse=True, return_counts=True): the distinct
\* values, for each position the index of its value among them, and for each
\* distinct value how often it occurs.  numpy returns the distinct values
\* sorted; the code reads them only through inverse and counts, so they are
\* kept here in order of first occurrence.
RECURSIVE Distinct(_)
Distinct(arr) ==
    IF Len(arr) = 0 THEN <<>>
    ELSE LET front == Distinct(SubSeq(arr, 1, Len(arr) - 1))
             last  == arr[Len(arr)]
         IN  IF last \in Range(front) THEN front ELSE Append(front, last)

NpUnique(arr) ==
    LET u == Distinct(arr)
    IN  [ unique  |-> u,
          inverse |-> [ i \in 1..Len(arr) |->
                          CHOOSE k \in 1..Len(u) : u[k] = arr[i] ],
          counts  |-> [ k \in 1..Len(u) |->
                          Cardinality({ i \in 1..Len(arr) : arr[i] = u[k] }) ] ]

\* Duplicates found only between neighbours in the list.
DupeNamesIxAdjacent(names) ==
    { i \in 1..Len(names) :
        \/ (i > 1 /\ names[i-1] = names[i])
        \/ (i < Len(names) /\ names[i+1] = names[i]) }

\* A threshold one too high.
DupeNamesIxOverTwo(names) ==
    LET u == NpUnique(names)
    IN  { i \in 1..Len(names) : u.counts[u.inverse[i]] > 2 }

\* No position masked.
DupeNamesIxNone(names) == {}

\* np.where(counts[inverse_ix] > 1)[0]
DupeNamesIx(names) ==
    LET u == NpUnique(names)
    IN  { i \in 1..Len(names) : u.counts[u.inverse[i]] > 1 }

\* shortest_paths_arr after the masked assignment
ShortestPathsArr(relpaths_list) ==
    LET names == AllFileNamesList(relpaths_list)
        dupes == DupeNamesIx(names)
    IN  [ i \in 1..Len(relpaths_list) |->
            IF i \in dupes THEN StrOf(relpaths_list[i]) ELSE names[i] ]

\* {fn: path for fn, path in zip(keys, values)}: a later pair replaces an
\* earlier one with the same key
DictOfZip(keys, values) ==
    [ k \in Range(keys) |->
        values[CHOOSE i \in 1..Len(keys) :
                  keys[i] = k /\ \A j \in (i+1)..Len(keys) : keys[j] # k] ]

----------------------------------------------------------------------------
(* The program: list the directory, filter, resolve. *)

Init ==
    /\ all_rel = <<>>
    /\ include_subdirs = None
    /\ include_root = TRUE
    /\ result = [ raised |-> FALSE, value |-> <<>> ]
    /\ shortest_paths_arr = <<>>
    /\ mapping = <<>>
    /\ pc = "listing"

\* get_relpaths_from_dir: rglob yields one more file, each file once, in an
\* order the file system decides.
ListFile(p) ==
    /\ pc = "listing"
    /\ Len(all_rel) < MaxPaths
    /\ p \notin Range(all_rel)
    /\ all_rel' = Append(all_rel, p)
    /\ UNCHANGED <<include_subdirs, include_root, result,
                   shortest_paths_arr, mapping, pc>>

\* The values of include_subdirs: None, or a collection of strings.  The
\* code reads the collection only through "any" over allowed_dirs and raises
\* the same ValueError whichever entry fails, so neither the order nor a
\* repeated entry can change the outcome: the collection is kept as a set.
SubdirArgs ==
    { None } \cup
    { [ none |-> FALSE, items |-> T ] :
        T \in { X \in SUBSET SubdirSpecs : Cardinality(X) <= MaxSubdirs } }

\* get_relpaths_matching_subdirs(dir_path, include_subdirs=s, include_root=r)
CallFilter(s, r) ==
    /\ pc = "listing"
    /\ include_subdirs' = s
    /\ include_root' = r
    /\ result' = GetRelpathsMatchingSubdirs(all_rel, s, r)
    /\ pc' = "filtered"
    /\ UNCHANGED <<all_rel, shortest_paths_arr, mapping>>

\* _get_shortest_path_by_filename(relpaths_list) on the filtered list
Resolve ==
    /\ pc = "filtered"
    /\ ~result.raised
    /\ shortest_paths_arr' = ShortestPathsArr(result.value)
    /\ mapping' = DictOfZip(ShortestPathsArr(result.value), result.value)
    /\ pc' = "resolved"
    /\ UNCHANGED <<all_rel, include_subdirs, include_root, result>>

Next ==
    \/ \E p \in Files : ListFile(p)
    \/ \E s \in SubdirArgs, r \in BOOLEAN : CallFilter(s, r)
    \/ Resolve

Spec == Init /\ [][Next]_vars

----------------------------------------------------------------------------
(* Properties *)

Given == ~include_subdirs.none /\ include_subdirs.items # {}
Returned == pc # "listing" /\ ~result.raised
Retained(p) == p \in Range(result.value)

\* d's segment sequence is a prefix of (or equal to) q's
IsSegmentPrefix(d, q) ==
    Len(d) <= Len(q) /\ \A i \in 1..Len(d) : d[i] = q[i]

\* a is b with some elements left out, the others in b's order
RECURSIVE IsSubsequence(_, _)
IsSubsequence(a, b) ==
    IF Len(a) = 0 THEN TRUE
    ELSE IF Len(b) = 0 THEN FALSE
    ELSE IF Head(a) = Head(b) THEN IsSubsequence(Tail(a), Tail(b))
    ELSE IsSubsequence(a, Tail(b))

\* s names the root itself: a relative path without parts
NamesRoot(s) == PathOf(s).root = "" /\ PathOf(s).parts = <<>>

IsAbsolute(s) == PathOf(s).root # ""

\* s leaves the root: at some part the ".." parts outnumber the others
EscapesRoot(s) ==
    LET parts == PathOf(s).parts
    IN  \E n \in 1..Len(parts) :
            Cardinality({ i \in 1..n : parts[i] = ".." })
              > Cardinality({ i \in 1..n : parts[i] # ".." })

C2_KeyPerPosition ==
    pc = "resolved" =>
        LET P == result.value
        IN  /\ Len(shortest_paths_arr) = Len(P)
            /\ \A i \in 1..Len(P) :
                  shortest_paths_arr[i] =
                    IF \E j \in 1..Len(P) : j # i /\ NameOf(P[j]) = NameOf(P[i])
                    THEN StrOf(P[i])
                    ELSE NameOf(P[i])

\* a.md, sub/b.md, sub/a.md: the two a.md are not neighbours.
C2_Witness ==
    /\ pc = "resolved"
    /\ result.value = << <<"a.md">>, <<"sub", "b.md">>, <<"sub", "a.md">> >>
    /\ shortest_paths_arr = << "a.md", "b.md", "sub/a.md" >>

\* C3: looking up the key of position i in the mapping yields the path at
\* position i.
C3_RoundTrip ==
    pc = "resolved" =>
        \A i \in 1..Len(result.value) :
            /\ shortest_paths_arr[i] \in DOMAIN mapping
            /\ mapping[shortest_paths_arr[i]] = result.value[i]

\* Scenario A: a.md, sub/a.md, sub/b.md.
C3_Witness ==
    /\ pc = "resolved"
    /\ result.value = << <<"a.md">>, <<"sub", "a.md">>, <<"sub", "b.md">> >>
    /\ DOMAIN mapping = { "a.md", "sub/a.md", "b.md" }
    /\ mapping["a.md"] = <<"a.md">>
    /\ mapping["sub/a.md"] = <<"sub", "a.md">>
    /\ mapping["b.md"] = <<"sub", "b.md">>

\* C4: the mapping has as many entries as the input has paths, and every
\* input path is the value of exactly one key; the empty input gives the
\* empty mapping.
C4_SizeAndValues ==
    pc = "resolved" =>
        /\ Cardinality(DOMAIN mapping) = Len(result.value)
        /\ \A i \in 1..Len(result.value) :
              Cardinality({ k \in DOMAIN mapping : mapping[k] = result.value[i] }) = 1

\* Three paths, two of them with one bare filename, three entries.
C4_Witness ==
    /\ pc = "resolved"
    /\ Len(result.value) = MaxPaths
    /\ \E i, j \in 1..Len(result.value) :
          i # j /\ NameOf(result.value[i]) = NameOf(result.value[j])
    /\ Cardinality(DOMAIN mapping) = Len(result.value)

\* C5: the list a call returns is a subsequence of the listing.
C5_Subsequence ==
    Returned => IsSubsequence(result.value, all_rel)

\* The dropped path lies between the two retained ones.
C5_Witness ==
    /\ pc = "filtered"
    /\ ~result.raised
    /\ Len(all_rel) = 3
    /\ result.value = << all_rel[1], all_rel[3] >>

\* C6: filtering the returned list again with the same arguments returns it
\* unchanged.
C6_Idempotent ==
    Returned =>
        GetRelpathsMatchingSubdirs(result.value, include_subdirs, include_root)
          = result

\* A restricted call that dropped some paths and kept others.
C6_Witness ==
    /\ pc = "filtered"
    /\ Given
    /\ ~result.raised
    /\ Len(result.value) = 2
    /\ Len(all_rel) = 3

\* C7: an entry naming the root ('.', './', '') matches nothing by itself:
\* the call returns, root-level files are retained only under include_root
\* and files in sub-directories only when another entry covers them.
C7_RootEntryMatchesNothing ==
    ( /\ pc # "listing"
      /\ \E s \in include_subdirs.items : NamesRoot(s)
      /\ \A s \in include_subdirs.items : ~IsAbsolute(s) ) =>
        /\ ~result.raised
        /\ \A i \in 1..Len(all_rel) :
              Retained(all_rel[i]) <=>
                \/ include_root /\ ParentOf(all_rel[i]) = <<>>
                \/ \E s \in include_subdirs.items :
                      /\ ~NamesRoot(s)
                      /\ IsSegmentPrefix(NormalizeSubdir(s).parts,
                                         ParentOf(all_rel[i]))

\* C8: a call with a malformed entry, absolute or leaving the root through
\* ".." parts, fails with an error.
C8_MalformedRaises ==
    ( /\ pc # "listing"
      /\ \E s \in include_subdirs.items : IsAbsolute(s) \/ EscapesRoot(s) ) =>
        result.raised

\* C9: with a non-empty allow-list, a returned file either sits in the root
\* under include_root or has its immediate parent among the entries.
C9_ImmediateParentListed ==
    (Returned /\ Given) =>
        \A i \in 1..Len(result.value) :
            \/ include_root /\ ParentOf(result.value[i]) = <<>>
            \/ \E s \in include_subdirs.items :
                  NormalizeSubdir(s).parts = ParentOf(result.value[i])

\* C10: with include_subdirs None or empty the call returns every listed
\* path under include_root, and otherwise exactly the listed paths whose
\* parent is not the root, in the listing's order.
C10_NoRestriction ==
    (pc # "listing" /\ (include_subdirs.none \/ include_subdirs.items = {})) =>
        /\ ~result.raised
        /\ include_root => result.value = all_rel
        /\ ~include_root =>
              /\ IsSubsequence(result.value, all_rel)
              /\ \A i \in 1..Len(all_rel) :
                    Retained(all_rel[i]) <=> ParentOf(all_rel[i]) # <<>>

\* An empty collection, include_root false, a root-level file dropped.
C10_Witness ==
    /\ pc = "filtered"
    /\ include_subdirs = [ none |-> FALSE, items |-> {} ]
    /\ ~include_root
    /\ all_rel = << <<"root.md">>, <<"Cat2", "z.md">>, <<"sub", "a.md">> >>
    /\ result = [ raised |-> FALSE,
                  value  |-> << <<"Cat2", "z.md">>, <<"sub", "a.md">> >> ]

====
